---- MODULE Spec2Model ----
(***************************************************************************)
(* A model of mslex (src/mslex/__init__.py): the two C-runtime argument    *)
(* splitters, cmd.exe's caret pass, the split facade and the quoting       *)
(* encoders.  A Python str is a sequence of one-character strings; every   *)
(* regular expression of the source is modelled by the runs it matches,    *)
(* position by position, with Python's leftmost-first alternation.         *)
(***************************************************************************)
EXTENDS Naturals, Integers, Sequences, FiniteSets, TLC

VARIABLES
    words,    \* the list of words handed to join (<<>> when none was given)
    cmdline,  \* the string a split operation, or quote, is applied to
    pc,       \* "words": words await join; "cmdline": cmdline awaits a call; "done"
    call,     \* the last call made, with its arguments
    encoded,  \* how cmdline was produced: "raw" | "for_cmd" | "argv"
    result    \* the outcome of the last call

vars == <<words, cmdline, pc, call, encoded, result>>

(***************************************************************************)
(* Characters.                                                             *)
(***************************************************************************)
SP == " "
NL == "\n"
TAB == "\t"
CR == "\r"
FF == "\f"
DQ == "\""
BS == "\\"
CARET == "^"

\* the class \s of the regular expressions, and the characters str.lstrip drops
Whitespace == {SP, TAB, NL, CR, FF}

\* cmd_meta without the ampersand
cmd_meta_without_ampersand == {DQ, CARET, "|", "<", ">", "(", ")", "%", "!"}

\* cmd_meta_inside_quotes without the substitution characters
cmd_meta_inside_quotes_quote_only == {DQ}

\* the character classes of the three patterns at module level
cmd_meta == {DQ, CARET, "&", "|", "<", ">", "(", ")", "%", "!"}
cmd_meta_or_space == Whitespace \cup cmd_meta
cmd_meta_inside_quotes == {DQ, "%", "!"}

(***************************************************************************)
(* Helpers for regular-expression runs.                                    *)
(***************************************************************************)
Min(S) == CHOOSE x \in S : \A y \in S : x <= y

\* The position after the longest run, starting at i, of characters that are
\* in class S (inClass = TRUE) or outside it (inClass = FALSE): a greedy X* at i.
RunEnd(s, i, S, inClass) ==
    LET stops == {j \in i..Len(s) : (s[j] \in S) # inClass}
    IN  IF stops = {} THEN Len(s) + 1 ELSE Min(stops)

\* re.search of a one-character class
Search(S, s) == \E j \in 1..Len(s) : s[j] \in S

\* str * n
Repeat(c, n) == [j \in 1..n |-> c]

RECURSIVE Concat(_)
\* str.join of the empty string over the parts
Concat(parts) ==
    IF parts = <<>> THEN <<>> ELSE Head(parts) \o Concat(Tail(parts))

lstrip(s) == SubSeq(s, RunEnd(s, 1, Whitespace, TRUE), Len(s))

(***************************************************************************)
(* The token scanner: re.finditer over the pattern with the alternatives  *)
(* (whitespace run) | (backslash run)(quote run) | (any character, then    *)
(* a run of characters that are no whitespace, backslash or quote).        *)
(* A match is its four groups and the position after it; a group that did  *)
(* not take part (None) and an empty group are both <<>>, as both are      *)
(* falsy in the tests the splitters make.                                  *)
(***************************************************************************)
NoGroups == [space |-> <<>>, slashes |-> <<>>, quotes |-> <<>>, text |-> <<>>, end |-> 0]

\* ArgMatchAt whose whitespace alternative takes one character
ArgMatchAt_one_space(t, i) ==
    IF t[i] \in Whitespace
    THEN [NoGroups EXCEPT !.space = <<t[i]>>, !.end = i + 1]
    ELSE LET b == RunEnd(t, i, {BS}, TRUE)
         IN  IF b <= Len(t) /\ t[b] = DQ
             THEN LET q == RunEnd(t, b, {DQ}, TRUE)
                  IN  [NoGroups EXCEPT !.slashes = SubSeq(t, i, b - 1),
                                       !.quotes = SubSeq(t, b, q - 1), !.end = q]
             ELSE LET e == RunEnd(t, i + 1, Whitespace \cup {BS, DQ}, FALSE)
                  IN  [NoGroups EXCEPT !.text = SubSeq(t, i, e - 1), !.end = e]

\* ArgMatchAt whose text alternative runs through backslashes
ArgMatchAt_text_over_slashes(t, i) ==
    IF t[i] \in Whitespace
    THEN LET e == RunEnd(t, i, Whitespace, TRUE)
         IN  [NoGroups EXCEPT !.space = SubSeq(t, i, e - 1), !.end = e]
    ELSE LET b == RunEnd(t, i, {BS}, TRUE)
         IN  IF b <= Len(t) /\ t[b] = DQ
             THEN LET q == RunEnd(t, b, {DQ}, TRUE)
                  IN  [NoGroups EXCEPT !.slashes = SubSeq(t, i, b - 1),
                                       !.quotes = SubSeq(t, b, q - 1), !.end = q]
             ELSE LET e == RunEnd(t, i + 1, Whitespace \cup {DQ}, FALSE)
                  IN  [NoGroups EXCEPT !.text = SubSeq(t, i, e - 1), !.end = e]

ArgMatchAt(t, i) ==
    IF t[i] \in Whitespace
    THEN LET e == RunEnd(t, i, Whitespace, TRUE)
         IN  [NoGroups EXCEPT !.space = SubSeq(t, i, e - 1), !.end = e]
    ELSE LET b == RunEnd(t, i, {BS}, TRUE)
         IN  IF b <= Len(t) /\ t[b] = DQ
             THEN LET q == RunEnd(t, b, {DQ}, TRUE)
                  IN  [NoGroups EXCEPT !.slashes = SubSeq(t, i, b - 1),
                                       !.quotes = SubSeq(t, b, q - 1), !.end = q]
             \* "." matches any character but a newline, and a newline is in \s
             ELSE LET e == RunEnd(t, i + 1, Whitespace \cup {BS, DQ}, FALSE)
                  IN  [NoGroups EXCEPT !.text = SubSeq(t, i, e - 1), !.end = e]

RECURSIVE ArgMatchesFrom(_, _)
ArgMatchesFrom(t, i) ==
    IF i > Len(t) THEN <<>>
    ELSE LET m == ArgMatchAt(t, i) IN <<m>> \o ArgMatchesFrom(t, m.end)

ArgMatches(s) == ArgMatchesFrom(lstrip(s), 1)

(***************************************************************************)
(* The legacy splitter.  The shared iterator i is the sequence ms of       *)
(* matches with a cursor k; _iter_arg_msvcrt(peek, i) starts at peek =     *)
(* ms[k] and returns the argument, the cursor it leaves behind and its     *)
(* last quote_mode.                                                        *)
(***************************************************************************)
Bool(b) == IF b THEN 1 ELSE 0

RECURSIVE _iter_arg_msvcrt_keeps_slashes(_, _, _, _)
\* _iter_arg_msvcrt that yields every backslash of a run that quotes follow
_iter_arg_msvcrt_keeps_slashes(ms, k, quote_mode, out) ==
    IF k > Len(ms) THEN [arg |-> out, next |-> k, quote_mode |-> quote_mode]
    ELSE LET m == ms[k] IN
         IF m.space # <<>>
         THEN IF quote_mode
              THEN _iter_arg_msvcrt_keeps_slashes(ms, k + 1, quote_mode, out \o m.space)
              ELSE [arg |-> out, next |-> k + 1, quote_mode |-> quote_mode]
         ELSE IF m.quotes # <<>>
         THEN LET n_slashes == Len(m.slashes)
                  n_quotes == Len(m.quotes)
                  slashes_odd == n_slashes % 2
                  magic_sum == n_quotes + Bool(quote_mode) + 2 * slashes_odd
              IN  _iter_arg_msvcrt_keeps_slashes(ms, k + 1, (magic_sum % 3) = 1,
                      out \o Repeat(BS, n_slashes) \o Repeat(DQ, magic_sum \div 3))
         ELSE _iter_arg_msvcrt_keeps_slashes(ms, k + 1, quote_mode, out \o m.text)

RECURSIVE _iter_arg_msvcrt_even_slashes(_, _, _, _)
\* _iter_arg_msvcrt whose magic_sum leaves out the parity of the backslashes
_iter_arg_msvcrt_even_slashes(ms, k, quote_mode, out) ==
    IF k > Len(ms) THEN [arg |-> out, next |-> k, quote_mode |-> quote_mode]
    ELSE LET m == ms[k] IN
         IF m.space # <<>>
         THEN IF quote_mode
              THEN _iter_arg_msvcrt_even_slashes(ms, k + 1, quote_mode, out \o m.space)
              ELSE [arg |-> out, next |-> k + 1, quote_mode |-> quote_mode]
         ELSE IF m.quotes # <<>>
         THEN LET n_slashes == Len(m.slashes)
                  n_quotes == Len(m.quotes)
                  magic_sum == n_quotes + Bool(quote_mode)
              IN  _iter_arg_msvcrt_even_slashes(ms, k + 1, (magic_sum % 3) = 1,
                      out \o Repeat(BS, n_slashes \div 2) \o Repeat(DQ, magic_sum \div 3))
         ELSE _iter_arg_msvcrt_even_slashes(ms, k + 1, quote_mode, out \o m.text)

RECURSIVE _iter_arg_msvcrt(_, _, _, _)
_iter_arg_msvcrt(ms, k, quote_mode, out) ==
    IF k > Len(ms) THEN [arg |-> out, next |-> k, quote_mode |-> quote_mode]
    ELSE LET m == ms[k] IN
         IF m.space # <<>>
         THEN IF quote_mode
              THEN _iter_arg_msvcrt(ms, k + 1, quote_mode, out \o m.space)
              ELSE [arg |-> out, next |-> k + 1, quote_mode |-> quote_mode]
         ELSE IF m.quotes # <<>>
         THEN LET n_slashes == Len(m.slashes)
                  n_quotes == Len(m.quotes)
                  slashes_odd == n_slashes % 2
                  magic_sum == n_quotes + Bool(quote_mode) + 2 * slashes_odd
              IN  _iter_arg_msvcrt(ms, k + 1, (magic_sum % 3) = 1,
                      out \o Repeat(BS, n_slashes \div 2) \o Repeat(DQ, magic_sum \div 3))
         ELSE _iter_arg_msvcrt(ms, k + 1, quote_mode, out \o m.text)

RECURSIVE ArgsMsvcrt(_, _)
ArgsMsvcrt(ms, k) ==
    IF k > Len(ms) THEN <<>>
    ELSE LET r == _iter_arg_msvcrt(ms, k, FALSE, <<>>)
         IN  <<r.arg>> \o ArgsMsvcrt(ms, r.next)

\* split_msvcrt without the lstrip of its argument
split_msvcrt_no_lstrip(s) == ArgsMsvcrt(ArgMatchesFrom(s, 1), 1)

split_msvcrt(s) == ArgsMsvcrt(ArgMatches(s), 1)

(***************************************************************************)
(* The modern splitter.                                                    *)
(***************************************************************************)
RECURSIVE UcrtQuotes_closes_on_pair(_, _, _)
\* the quote loop in which a doubled quote also flips quote_mode
UcrtQuotes_closes_on_pair(n, quote_mode, out) ==
    IF n = 0 THEN [out |-> out, quote_mode |-> quote_mode]
    ELSE IF quote_mode /\ n >= 2
         THEN UcrtQuotes_closes_on_pair(n - 2, ~quote_mode, out \o <<DQ>>)
         ELSE UcrtQuotes_closes_on_pair(n - 1, ~quote_mode, out)

\* the quote loop that flips quote_mode on every quote and emits none
UcrtQuotes_toggle_only(n, quote_mode, out) ==
    [out |-> out, quote_mode |-> IF n % 2 = 1 THEN ~quote_mode ELSE quote_mode]

RECURSIVE UcrtQuotes(_, _, _)
\* the loop `while quotes` over the n quotes left of a run
UcrtQuotes(n, quote_mode, out) ==
    IF n = 0 THEN [out |-> out, quote_mode |-> quote_mode]
    ELSE IF quote_mode /\ n >= 2
         THEN UcrtQuotes(n - 2, quote_mode, out \o <<DQ>>)
         ELSE UcrtQuotes(n - 1, ~quote_mode, out)

RECURSIVE _iter_arg_ucrt_escaped_toggles(_, _, _, _)
\* _iter_arg_ucrt that leaves the escaped quote in the run it then loops over
_iter_arg_ucrt_escaped_toggles(ms, k, quote_mode, out) ==
    IF k > Len(ms) THEN [arg |-> out, next |-> k, quote_mode |-> quote_mode]
    ELSE LET m == ms[k] IN
         IF m.space # <<>>
         THEN IF quote_mode
              THEN _iter_arg_ucrt_escaped_toggles(ms, k + 1, quote_mode, out \o m.space)
              ELSE [arg |-> out, next |-> k + 1, quote_mode |-> quote_mode]
         ELSE IF m.quotes # <<>>
         THEN LET n == Len(m.slashes)
                  odd == (n % 2) = 1
                  out1 == out \o SubSeq(m.slashes, 1, n \div 2)
                              \o (IF odd THEN <<DQ>> ELSE <<>>)
                  r == UcrtQuotes(Len(m.quotes), quote_mode, out1)
              IN  _iter_arg_ucrt_escaped_toggles(ms, k + 1, r.quote_mode, r.out)
         ELSE _iter_arg_ucrt_escaped_toggles(ms, k + 1, quote_mode, out \o m.text)

RECURSIVE _iter_arg_ucrt(_, _, _, _)
_iter_arg_ucrt(ms, k, quote_mode, out) ==
    IF k > Len(ms) THEN [arg |-> out, next |-> k, quote_mode |-> quote_mode]
    ELSE LET m == ms[k] IN
         IF m.space # <<>>
         THEN IF quote_mode
              THEN _iter_arg_ucrt(ms, k + 1, quote_mode, out \o m.space)
              ELSE [arg |-> out, next |-> k + 1, quote_mode |-> quote_mode]
         ELSE IF m.quotes # <<>>
         THEN LET n == Len(m.slashes)
                  odd == (n % 2) = 1
                  out1 == out \o SubSeq(m.slashes, 1, n \div 2)
                              \o (IF odd THEN <<DQ>> ELSE <<>>)
                  r == UcrtQuotes(Len(m.quotes) - Bool(odd), quote_mode, out1)
              IN  _iter_arg_ucrt(ms, k + 1, r.quote_mode, r.out)
         ELSE _iter_arg_ucrt(ms, k + 1, quote_mode, out \o m.text)

RECURSIVE ArgsUcrt(_, _)
ArgsUcrt(ms, k) ==
    IF k > Len(ms) THEN <<>>
    ELSE LET r == _iter_arg_ucrt(ms, k, FALSE, <<>>)
         IN  <<r.arg>> \o ArgsUcrt(ms, r.next)

\* split_ucrt without the lstrip of its argument
split_ucrt_no_lstrip(s) == ArgsUcrt(ArgMatchesFrom(s, 1), 1)

split_ucrt(s) == ArgsUcrt(ArgMatches(s), 1)

(***************************************************************************)
(* Outcomes of a call: a returned value, or a raised MSLexError with its   *)
(* message prefix and the string whose repr the message ends with.         *)
(***************************************************************************)
Unquoted == "Unquoted CMD metacharacters in string: "
Ambiguous == "String is ambiguous, legacy and modern runtimes disagree: "

Return(v) == [kind |-> "return", value |-> v, msg |-> "", s |-> <<>>]
Raise(m, s) == [kind |-> "MSLexError", value |-> <<>>, msg |-> m, s |-> s]

(***************************************************************************)
(* strip_carets_like_cmd: the generator i() over the matches of the        *)
(* pattern (caret and at most one more character) | (quote) | (run of      *)
(* characters that are neither).  "." does not match a newline, so a caret *)
(* before a newline is an escape run of the caret alone.  StripFrom runs   *)
(* the generator from position i and returns whether it raised, the text   *)
(* it yielded, its last quote_mode and the matches it scanned, each with   *)
(* the quote_mode it was scanned in.                                       *)
(***************************************************************************)
Scanned(kind, text, quote_mode) == [kind |-> kind, text |-> text, quote_mode |-> quote_mode]

RECURSIVE StripFrom(_, _, _, _, _, _)
StripFrom(s, check, i, quote_mode, out, runs) ==
    IF i > Len(s)
    THEN [raised |-> FALSE, out |-> out, quote_mode |-> quote_mode, runs |-> runs]
    ELSE IF s[i] = CARET
    THEN LET escaped == IF i < Len(s) /\ s[i + 1] # NL
                        THEN SubSeq(s, i, i + 1) ELSE <<CARET>>
             next == i + Len(escaped)
             runs1 == Append(runs, Scanned("escaped", escaped, quote_mode))
         IN  IF quote_mode
             THEN IF Len(escaped) > 1 /\ escaped[2] = DQ
                  THEN StripFrom(s, check, next, FALSE, out \o escaped, runs1)
                  ELSE IF Len(escaped) > 1 /\ check /\ escaped[2] \in {"!", "%"}
                       THEN [raised |-> TRUE, out |-> out \o escaped,
                             quote_mode |-> quote_mode, runs |-> runs1]
                       ELSE StripFrom(s, check, next, quote_mode, out \o escaped, runs1)
             ELSE StripFrom(s, check, next, quote_mode, out \o Tail(escaped), runs1)
    ELSE IF s[i] = DQ
    THEN StripFrom(s, check, i + 1, ~quote_mode, out \o <<DQ>>,
                   Append(runs, Scanned("quote", <<DQ>>, quote_mode)))
    ELSE LET e == RunEnd(s, i, {CARET, DQ}, FALSE)
             text == SubSeq(s, i, e - 1)
             meta == IF quote_mode THEN cmd_meta_inside_quotes ELSE cmd_meta
             runs1 == Append(runs, Scanned("text", text, quote_mode))
         IN  IF check /\ Search(meta, text)
             THEN [raised |-> TRUE, out |-> out \o text,
                   quote_mode |-> quote_mode, runs |-> runs1]
             ELSE StripFrom(s, check, e, quote_mode, out \o text, runs1)

StripScan(s, check) == StripFrom(s, check, 1, FALSE, <<>>, <<>>)

RECURSIVE DropCarets(_, _)
\* s from i without its carets, each caret keeping the character after it
DropCarets(s, i) ==
    IF i > Len(s) THEN <<>>
    ELSE IF s[i] = CARET
    THEN (IF i < Len(s) THEN <<s[i + 1]>> ELSE <<>>) \o DropCarets(s, i + 2)
    ELSE <<s[i]>> \o DropCarets(s, i + 1)

\* strip_carets_like_cmd that takes a caret for an escape inside quotes too
strip_carets_ignores_quotes(s, check) ==
    IF StripScan(s, check).raised THEN Raise(Unquoted, s) ELSE Return(DropCarets(s, 1))

\* strip_carets_like_cmd that, when checking, returns the string as it came
strip_carets_check_returns_input(s, check) ==
    LET r == StripScan(s, check)
    IN  IF r.raised THEN Raise(Unquoted, s)
        ELSE IF check THEN Return(s) ELSE Return(r.out)

\* strip_carets_like_cmd that checks whatever its flag says
strip_carets_always_check(s, check) ==
    LET r == StripScan(s, TRUE)
    IN  IF r.raised THEN Raise(Unquoted, s) ELSE Return(r.out)

strip_carets_like_cmd(s, check) ==
    LET r == StripScan(s, check)
    IN  IF r.raised THEN Raise(Unquoted, s) ELSE Return(r.out)

(***************************************************************************)
(* split.  ucrt is Optional[bool]: "None", "True" or "False".  The         *)
(* parameter s is rebound to the caret-stripped string before the          *)
(* splitters run, and it is that s the ambiguity message shows.            *)
(***************************************************************************)
\* split whose guard looks for a caret only
split_guard_caret_only(s, like_cmd, check, ucrt) ==
    LET stripped == IF like_cmd /\ Search({CARET}, s)
                    THEN strip_carets_like_cmd(s, check)
                    ELSE Return(s)
    IN  IF stripped.kind # "return" THEN stripped
        ELSE LET s1 == stripped.value IN
             IF ucrt = "None"
             THEN LET v == split_ucrt(s1)
                  IN  IF v # split_msvcrt(s1) THEN Raise(Ambiguous, s1) ELSE Return(v)
             ELSE IF ucrt = "True"
             THEN Return(split_ucrt(s1))
             ELSE Return(split_msvcrt(s1))

\* split whose ambiguity message shows the string it was called with
split_message_original(s, like_cmd, check, ucrt) ==
    LET stripped == IF like_cmd /\ Search(cmd_meta, s)
                    THEN strip_carets_like_cmd(s, check)
                    ELSE Return(s)
    IN  IF stripped.kind # "return" THEN stripped
        ELSE LET s1 == stripped.value IN
             IF ucrt = "None"
             THEN LET v == split_ucrt(s1)
                  IN  IF v # split_msvcrt(s1) THEN Raise(Ambiguous, s) ELSE Return(v)
             ELSE IF ucrt = "True"
             THEN Return(split_ucrt(s1))
             ELSE Return(split_msvcrt(s1))

\* split without the comparison of the two splitters
split_no_comparison(s, like_cmd, check, ucrt) ==
    LET stripped == IF like_cmd /\ Search(cmd_meta, s)
                    THEN strip_carets_like_cmd(s, check)
                    ELSE Return(s)
    IN  IF stripped.kind # "return" THEN stripped
        ELSE IF ucrt = "False" THEN Return(split_msvcrt(stripped.value))
             ELSE Return(split_ucrt(stripped.value))

\* split with the two pinned variants exchanged
split_variants_swapped(s, like_cmd, check, ucrt) ==
    LET stripped == IF like_cmd /\ Search(cmd_meta, s)
                    THEN strip_carets_like_cmd(s, check)
                    ELSE Return(s)
    IN  IF stripped.kind # "return" THEN stripped
        ELSE LET s1 == stripped.value IN
             IF ucrt = "None"
             THEN LET v == split_ucrt(s1)
                  IN  IF v # split_msvcrt(s1) THEN Raise(Ambiguous, s1) ELSE Return(v)
             ELSE IF ucrt = "True"
             THEN Return(split_msvcrt(s1))
             ELSE Return(split_ucrt(s1))

split(s, like_cmd, check, ucrt) ==
    LET stripped == IF like_cmd /\ Search(cmd_meta, s)
                    THEN strip_carets_like_cmd(s, check)
                    ELSE Return(s)
    IN  IF stripped.kind # "return" THEN stripped
        ELSE LET s1 == stripped.value IN
             IF ucrt = "None"
             THEN LET v == split_ucrt(s1)
                  IN  IF v # split_msvcrt(s1) THEN Raise(Ambiguous, s1) ELSE Return(v)
             ELSE IF ucrt = "True"
             THEN Return(split_ucrt(s1))
             ELSE Return(split_msvcrt(s1))

(***************************************************************************)
(* The quoting encoders.                                                   *)
(***************************************************************************)
RECURSIVE EscapeFrom(_, _)
\* parts() over the matches of (backslash run)(quote run) | (backslashes | others)
EscapeFrom(s, i) ==
    IF i > Len(s) THEN <<>>
    ELSE LET b == RunEnd(s, i, {BS}, TRUE) IN
         IF b <= Len(s) /\ s[b] = DQ
         THEN LET q == RunEnd(s, b, {DQ}, TRUE)
                  slashes == SubSeq(s, i, b - 1)
              IN  slashes \o slashes \o Concat([j \in 1..(q - b) |-> <<BS, DQ>>])
                      \o EscapeFrom(s, q)
         ELSE IF s[i] = BS
         THEN SubSeq(s, i, b - 1) \o EscapeFrom(s, b)
         ELSE LET e == RunEnd(s, i, {BS, DQ}, FALSE)
              IN  SubSeq(s, i, e - 1) \o EscapeFrom(s, e)

_escape_quotes(s) == EscapeFrom(s, 1)

\* The position where (backslashes)$ can end: "$" matches at the end of the
\* string and also just before a newline that is the last character.
DollarPos(s) == IF s # <<>> /\ s[Len(s)] = NL THEN Len(s) ELSE Len(s) + 1

\* re.sub of (backslashes)$ by the run twice
DoubleTrailingSlashes(s) ==
    LET e == DollarPos(s)
        b == Min({j \in 1..e : \A k \in j..(e - 1) : s[k] = BS})
    IN  SubSeq(s, 1, e - 1) \o SubSeq(s, b, e - 1) \o SubSeq(s, e, Len(s))

\* _wrap_in_quotes that leaves the backslashes before its closing quote alone
_wrap_in_quotes_no_doubling(s) == <<DQ>> \o s \o <<DQ>>

_wrap_in_quotes(s) == <<DQ>> \o DoubleTrailingSlashes(s) \o <<DQ>>

\* the replacement function f of _quote_for_cmd, on a quotable run
QuoteQuotable(quotable) ==
    IF Search(cmd_meta_or_space, quotable) \/ quotable[Len(quotable)] = BS
    THEN _wrap_in_quotes(quotable)
    ELSE quotable

RECURSIVE QuoteForCmdFrom(_, _)
QuoteForCmdFrom(s, i) ==
    IF i > Len(s) THEN <<>>
    ELSE IF s[i] \notin {"%", "!", DQ}
    THEN LET e == RunEnd(s, i, {"%", "!", DQ}, FALSE)
         IN  QuoteQuotable(SubSeq(s, i, e - 1)) \o QuoteForCmdFrom(s, e)
    ELSE IF s[i] \in {"%", "!"}
    THEN <<CARET, s[i]>> \o QuoteForCmdFrom(s, i + 1)
    ELSE <<BS, CARET, DQ>> \o QuoteForCmdFrom(s, i + 1)

_quote_for_cmd(s) == QuoteForCmdFrom(s, 1)

\* re.sub(cmd_meta, caret and the character, s)
CaretEscape(s) ==
    Concat([j \in 1..Len(s) |-> IF s[j] \in cmd_meta THEN <<CARET, s[j]>> ELSE <<s[j]>>])

\* quote that doubles the backslashes a word ends with when it adds no quotes
quote_doubles_unwrapped(s, for_cmd) ==
    IF s = <<>> THEN <<DQ, DQ>>
    ELSE IF for_cmd
    THEN IF ~Search(cmd_meta_or_space, s) THEN DoubleTrailingSlashes(s)
         ELSE LET quoted == _quote_for_cmd(s)
                  alt == CaretEscape(s)
              IN  IF ~Search(Whitespace \cup {DQ}, s) /\ Len(alt) < Len(quoted)
                  THEN alt ELSE quoted
    ELSE IF ~Search(Whitespace, s) THEN DoubleTrailingSlashes(_escape_quotes(s))
         ELSE _wrap_in_quotes(_escape_quotes(s))

\* quote that takes the caret encoding when the two are equally long
quote_carets_on_tie(s, for_cmd) ==
    IF s = <<>> THEN <<DQ, DQ>>
    ELSE IF for_cmd
    THEN IF ~Search(cmd_meta_or_space, s) THEN s
         ELSE LET quoted == _quote_for_cmd(s)
                  alt == CaretEscape(s)
              IN  IF ~Search(Whitespace \cup {DQ}, s) /\ Len(alt) <= Len(quoted)
                  THEN alt ELSE quoted
    ELSE IF ~Search(Whitespace, s) THEN _escape_quotes(s)
         ELSE _wrap_in_quotes(_escape_quotes(s))

quote(s, for_cmd) ==
    IF s = <<>> THEN <<DQ, DQ>>
    ELSE IF for_cmd
    THEN IF ~Search(cmd_meta_or_space, s) THEN s
         ELSE LET quoted == _quote_for_cmd(s)
                  alt == CaretEscape(s)
              IN  IF ~Search(Whitespace \cup {DQ}, s) /\ Len(alt) < Len(quoted)
                  THEN alt ELSE quoted
    ELSE IF ~Search(Whitespace, s) THEN _escape_quotes(s)
         ELSE _wrap_in_quotes(_escape_quotes(s))

RECURSIVE JoinFrom(_, _, _)
JoinFrom(split_command, for_cmd, k) ==
    IF k > Len(split_command) THEN <<>>
    ELSE (IF k > 1 THEN <<SP>> ELSE <<>>) \o quote(split_command[k], for_cmd)
             \o JoinFrom(split_command, for_cmd, k + 1)

join(split_command, for_cmd) == JoinFrom(split_command, for_cmd, 1)

(***************************************************************************)
(* Inputs.  Strings are enumerated over an alphabet with one character of  *)
(* each kind the code distinguishes, up to MaxLen characters; the longer   *)
(* command lines are examples of src/tests/test_mslex.py (its examples     *)
(* list and test_unquoted), and one of them with an escaped x before it.   *)
(***************************************************************************)
MaxLen == 4

Alphabet == {SP, NL, "x", DQ, BS, CARET, "&", "!"}

Strings(n) == UNION {[1..k -> Alphabet] : k \in 0..n}

RECURSIVE WordLists(_)
\* the lists of words whose join in the shortest encoding has at most n characters
WordLists(n) ==
    {<<>>} \cup UNION {{<<w>> \o rest : w \in [1..k -> Alphabet], rest \in WordLists(n - 1 - k)}
                          : k \in 0..(n - 1)}

Examples ==
    { <<DQ, "a", "a", "a", DQ, DQ, SP, "x">>,
      <<DQ, "a", "a", "a", DQ, SP, "x">>,
      <<DQ, "a", "a", "a", BS, DQ, DQ, DQ, SP, "x">>,
      <<DQ, DQ, DQ, DQ, DQ>>,
      <<"a", BS, BS, BS, DQ, "b", SP, "c", SP, "d">>,
      <<"f", "o", "o", SP, "&", "&", SP, "b", "a", "r">>,
      <<"f", "o", "o", SP, "|", "|", SP, "b", "a", "r">>,
      <<"f", "o", "o", SP, ">", "b", "a", "r">>,
      <<"f", "o", "o", SP, "<", "b", "a", "r">>,
      <<"&", "w", "h", "o", "a", "m", "i">>,
      <<"%", "f", "o", "o", "%">>,
      <<DQ, "%", "f", "o", "o", "%", DQ>>,
      <<DQ, CARET, "%", "f", "o", "o", CARET, "%", DQ>>,
      <<"(", "f", "o", "o", ")">>,
      <<DQ, "(", "f", "o", "o", ")", DQ>>,
      <<"f", "o", "o", SP, DQ, ">", "b", "a", "r", DQ>>,
      <<CARET, "%", "f", "o", "o", CARET, "%">>,
      <<CARET, "%", DQ, "f", "o", "o", DQ, CARET, "%">>,
      <<CARET, "x", DQ, "a", "a", "a", DQ, DQ, SP, "x">>,
      <<"f", "o", "o", CARET, "b", "a", "r">>,
      <<DQ, "f", "o", "o", CARET, "b", "a", "r", DQ>> }

(***************************************************************************)
(* The strings of test_multi_quotes: an open quote and aaa, or nothing,    *)
(* then m backslashes, n quotes, a space and x.  The test takes m below 5  *)
(* and n below 13; here both run up to 12.                                 *)
(***************************************************************************)
MaxSlashes == 12
MaxQuotes == 12

QuoteRun(qm, m, n) ==
    (IF qm THEN <<DQ, "a", "a", "a">> ELSE <<>>)
        \o Repeat(BS, m) \o Repeat(DQ, n) \o <<SP, "x">>

QuoteRuns ==
    {QuoteRun(qm, m, n) : qm \in BOOLEAN, m \in 0..MaxSlashes, n \in 0..MaxQuotes}

UcrtValues == {"None", "True", "False"}

NoCall == [op |-> "none", like_cmd |-> FALSE, check |-> FALSE, ucrt |-> "None",
           for_cmd |-> FALSE]

Init ==
    /\ \/ words \in WordLists(MaxLen) /\ cmdline = <<>> /\ pc = "words"
       \/ /\ words = <<>>
          /\ cmdline \in Strings(MaxLen) \cup Examples \cup QuoteRuns
          /\ pc = "cmdline"
    /\ call = NoCall
    /\ encoded = "raw"
    /\ result = Return(<<>>)

(***************************************************************************)
(* One action per public function.                                         *)
(***************************************************************************)
Join(for_cmd) ==
    /\ pc = "words"
    /\ cmdline' = join(words, for_cmd)
    /\ encoded' = IF for_cmd THEN "for_cmd" ELSE "argv"
    /\ call' = [NoCall EXCEPT !.op = "join", !.for_cmd = for_cmd]
    /\ result' = Return(cmdline')
    /\ pc' = "cmdline"
    /\ UNCHANGED words

Split(like_cmd, check, ucrt) ==
    /\ pc = "cmdline"
    /\ result' = split(cmdline, like_cmd, check, ucrt)
    /\ call' = [NoCall EXCEPT !.op = "split", !.like_cmd = like_cmd,
                              !.check = check, !.ucrt = ucrt]
    /\ pc' = "done"
    /\ UNCHANGED <<words, cmdline, encoded>>

SplitMsvcrt ==
    /\ pc = "cmdline"
    /\ result' = Return(split_msvcrt(cmdline))
    /\ call' = [NoCall EXCEPT !.op = "split_msvcrt"]
    /\ pc' = "done"
    /\ UNCHANGED <<words, cmdline, encoded>>

SplitUcrt ==
    /\ pc = "cmdline"
    /\ result' = Return(split_ucrt(cmdline))
    /\ call' = [NoCall EXCEPT !.op = "split_ucrt"]
    /\ pc' = "done"
    /\ UNCHANGED <<words, cmdline, encoded>>

StripCarets(check) ==
    /\ pc = "cmdline"
    /\ result' = strip_carets_like_cmd(cmdline, check)
    /\ call' = [NoCall EXCEPT !.op = "strip_carets_like_cmd", !.check = check]
    /\ pc' = "done"
    /\ UNCHANGED <<words, cmdline, encoded>>

Quote(for_cmd) ==
    /\ pc = "cmdline"
    /\ result' = Return(quote(cmdline, for_cmd))
    /\ call' = [NoCall EXCEPT !.op = "quote", !.for_cmd = for_cmd]
    /\ pc' = "done"
    /\ UNCHANGED <<words, cmdline, encoded>>

Next ==
    \/ \E for_cmd \in BOOLEAN : Join(for_cmd)
    \/ \E for_cmd \in BOOLEAN : Quote(for_cmd)
    \/ \E like_cmd \in BOOLEAN, check \in BOOLEAN, ucrt \in UcrtValues :
           Split(like_cmd, check, ucrt)
    \/ SplitMsvcrt
    \/ SplitUcrt
    \/ \E check \in BOOLEAN : StripCarets(check)

Spec == Init /\ [][Next]_vars

(***************************************************************************)
(* Properties.                                                             *)
(***************************************************************************)
SplitDone == pc = "done" /\ call.op = "split"

\* the string the splitters of split run on, when the caret pass did not raise
WorkingString ==
    IF call.like_cmd /\ Search(cmd_meta, cmdline)
    THEN StripScan(cmdline, call.check).out
    ELSE cmdline

RaisedUnquoted == result.kind = "MSLexError" /\ result.msg = Unquoted
RaisedAmbiguous == result.kind = "MSLexError" /\ result.msg = Ambiguous

\* C1: argv-mode round trip: for every list of words W, split of
\* join(W, for_cmd=False) with like_cmd=False and no variant pinned returns W
\* and raises nothing.
C1_ArgvRoundTrip ==
    (SplitDone /\ encoded = "argv" /\ ~call.like_cmd /\ call.ucrt = "None")
        => result = Return(words)

\* C2: shell-mode round trip and pairing: for every word w, split with its
\* defaults (like_cmd, check, no variant pinned) returns [w] on quote(w) and
\* [w, w] on quote(w), a space, quote(w), and raises nothing.
C2_ShellRoundTrip ==
    (/\ SplitDone /\ encoded = "for_cmd"
     /\ call.like_cmd /\ call.check /\ call.ucrt = "None"
     /\ \/ Len(words) = 1
        \/ Len(words) = 2 /\ words[1] = words[2])
        => result = Return(words)

\* C3: with no variant pinned, split raises the ambiguity error exactly when
\* split_ucrt and split_msvcrt differ on the working string, and returns their
\* common list when they agree.
C3_AmbiguityIffDisagree ==
    (SplitDone /\ call.ucrt = "None" /\ ~RaisedUnquoted)
        => IF split_ucrt(WorkingString) = split_msvcrt(WorkingString)
           THEN /\ result = Return(split_ucrt(WorkingString))
                /\ result = Return(split_msvcrt(WorkingString))
           ELSE RaisedAmbiguous

\* a shell-aware split with no variant pinned raised the ambiguity error
C3_Witness ==
    SplitDone /\ call.ucrt = "None" /\ call.like_cmd /\ RaisedAmbiguous

\* C4: with a variant pinned, split never raises the ambiguity error: ucrt=True
\* returns split_ucrt of the working string, ucrt=False split_msvcrt of it.
C4_PinnedNeverAmbiguous ==
    (SplitDone /\ call.ucrt # "None" /\ ~RaisedUnquoted)
        => result = Return(IF call.ucrt = "True" THEN split_ucrt(WorkingString)
                                                 ELSE split_msvcrt(WorkingString))

\* a pinned split returned on a string the two splitters disagree on
C4_Witness ==
    /\ SplitDone /\ call.ucrt # "None" /\ result.kind = "return"
    /\ split_ucrt(WorkingString) # split_msvcrt(WorkingString)

RECURSIVE MetaViolation(_, _, _)
\* Scanning s from i, character by character, in shell quote mode quote_mode:
\* is there one of & | < > ( ) % ! outside quotes that no caret consumes, or a
\* % or ! inside quotes (after a caret or not)?
MetaViolation(s, i, quote_mode) ==
    IF i > Len(s) THEN FALSE
    ELSE IF s[i] = CARET
    THEN IF i = Len(s) THEN FALSE
         ELSE IF quote_mode
              THEN \/ s[i + 1] \in {"%", "!"}
                   \/ MetaViolation(s, i + 2, s[i + 1] # DQ)
              ELSE MetaViolation(s, i + 2, quote_mode)
    ELSE IF s[i] = DQ
    THEN MetaViolation(s, i + 1, ~quote_mode)
    ELSE \/ s[i] \in (IF quote_mode THEN {"%", "!"}
                                    ELSE {"&", "|", "<", ">", "(", ")", "%", "!"})
         \/ MetaViolation(s, i + 1, quote_mode)

\* C5: with check on, the caret pass (and so a shell-aware split) fails with
\* the Unquoted CMD metacharacters error exactly when one of & | < > ( ) % !
\* occurs outside quotes without being consumed by a caret, or % or ! occurs
\* inside quotes, after a caret or not.
C5_UnquotedIffMetaViolation ==
    /\ (pc = "done" /\ call.op = "strip_carets_like_cmd" /\ call.check)
           => (RaisedUnquoted <=> MetaViolation(cmdline, 1, FALSE))
    /\ (SplitDone /\ call.like_cmd /\ call.check)
           => (RaisedUnquoted <=> MetaViolation(cmdline, 1, FALSE))

\* a strict shell-aware split failed on a caret-escaped ! inside quotes
C5_Witness ==
    /\ SplitDone /\ call.like_cmd /\ call.check /\ RaisedUnquoted
    /\ cmdline = <<DQ, CARET, "!">>

\* a strict caret pass ran on cmdline: strip_carets_like_cmd itself, or a
\* shell-aware split of a string with a character of cmd_meta
StrictPassRan ==
    /\ pc = "done" /\ call.check
    /\ \/ call.op = "strip_carets_like_cmd"
       \/ call.op = "split" /\ call.like_cmd /\ Search(cmd_meta, cmdline)

\* some plain-text match the strict pass scanned with quote_mode false holds a
\* character of S
UnquotedTextHas(S) ==
    LET runs == StripScan(cmdline, TRUE).runs
    IN  \E k \in 1..Len(runs) :
            /\ runs[k].kind = "text" /\ ~runs[k].quote_mode
            /\ Search(S, runs[k].text)

ShellOperators == {"&", "|", "<", ">", "(", ")", "%", "!"}

\* C6 as stated: with check on, a plain-text run scanned with quote_mode false
\* fails if it holds any of space, quote, caret, & | < > ( ) % !; an unquoted
\* space in a string that reaches the caret pass raises.
C6_SpaceForbidden ==
    (StrictPassRan /\ UnquotedTextHas({SP, DQ, CARET} \cup ShellOperators))
        => RaisedUnquoted

\* C6 as amended: with check on, a plain-text run scanned with quote_mode false
\* fails if it holds any of & | < > ( ) % !; whitespace is not forbidden, and a
\* string with none of & | < > ( ) % ! never fails.
C6_OperatorsForbidden ==
    /\ (StrictPassRan /\ UnquotedTextHas(ShellOperators)) => RaisedUnquoted
    /\ (StrictPassRan /\ ~Search(ShellOperators, cmdline)) => ~RaisedUnquoted

\* a strict shell-aware split scanned an unquoted space and returned
C6_Witness ==
    /\ StrictPassRan /\ call.op = "split" /\ result.kind = "return"
    /\ UnquotedTextHas({SP})

\* C7 as stated: the ambiguity error of split carries the string split was
\* called with, not the caret-stripped working string.
C7_CarriesOriginal ==
    (SplitDone /\ RaisedAmbiguous) => result.s = cmdline

\* C7 as amended: the ambiguity error of split carries the working string, the
\* caret-stripped string when the caret pass ran and the original otherwise.
C7_CarriesWorkingString ==
    (SplitDone /\ RaisedAmbiguous) => result.s = WorkingString

\* an ambiguity error whose string is not the one split was called with
C7_Witness ==
    SplitDone /\ RaisedAmbiguous /\ result.s # cmdline

\* the string of C8: quote, aaa, two quotes, space, x
QuotedAaa == <<DQ, "a", "a", "a", DQ, DQ, SP, "x">>

\* C8 as stated: split, shell-aware and strict with no variant pinned, returns
\* the words aaa-quote and x on the string quote, aaa, two quotes, space, x.
C8_ReturnsTwoWords ==
    (SplitDone /\ cmdline = QuotedAaa /\ call.like_cmd /\ call.check /\ call.ucrt = "None")
        => result = Return(<< <<"a", "a", "a", DQ>>, <<"x">> >>)

\* C8 as amended: on that string split, shell-aware and strict, raises the
\* ambiguity error with no variant pinned; it returns aaa-quote and x with
\* ucrt=False, and the single word aaa-quote-space-x with ucrt=True.
C8_AmbiguousUnlessPinned ==
    (SplitDone /\ cmdline = QuotedAaa /\ call.like_cmd /\ call.check)
        => IF call.ucrt = "None" THEN RaisedAmbiguous
           ELSE IF call.ucrt = "False"
           THEN result = Return(<< <<"a", "a", "a", DQ>>, <<"x">> >>)
           ELSE result = Return(<< <<"a", "a", "a", DQ, SP, "x">> >>)

\* the default split of that string has run
C8_Witness ==
    /\ SplitDone /\ cmdline = QuotedAaa
    /\ call.like_cmd /\ call.check /\ call.ucrt = "None" /\ RaisedAmbiguous

\* C9: on a string with no quote character split_msvcrt and split_ucrt agree,
\* and split with no variant pinned never raises the ambiguity error.
C9_NoQuoteNoDisagreement ==
    ~Search({DQ}, cmdline)
        => /\ split_msvcrt(cmdline) = split_ucrt(cmdline)
           /\ (pc = "done" /\ call.op = "split_msvcrt") => result.value = split_ucrt(cmdline)
           /\ (pc = "done" /\ call.op = "split_ucrt") => result.value = split_msvcrt(cmdline)
           /\ (SplitDone /\ call.ucrt = "None") => ~RaisedAmbiguous

\* an unpinned split returned several words of a string with backslashes and
\* leading whitespace but no quote
C9_Witness ==
    /\ SplitDone /\ call.ucrt = "None" /\ result.kind = "return"
    /\ ~Search({DQ}, cmdline) /\ Search({BS}, cmdline)
    /\ cmdline # <<>> /\ cmdline[1] \in Whitespace
    /\ Len(result.value) >= 2

RECURSIVE TotalLen(_)
TotalLen(ws) == IF ws = <<>> THEN 0 ELSE Len(Head(ws)) + TotalLen(Tail(ws))

Splitter(op, s) == IF op = "split_msvcrt" THEN split_msvcrt(s) ELSE split_ucrt(s)

\* s has one quote character, at p, with no backslash before it
OnlyQuoteAt(s, p) ==
    /\ s[p] = DQ
    /\ \A j \in 1..Len(s) : s[j] = DQ => j = p
    /\ p = 1 \/ s[p - 1] # BS

\* the start of the run without whitespace that ends just before p
ChunkStart(s, p) == Min({a \in 1..p : \A j \in a..(p - 1) : s[j] \notin Whitespace})

\* the length of the backslash run s ends with
TrailingSlashes(s) ==
    Len(s) + 1 - Min({b \in 1..(Len(s) + 1) : \A j \in b..Len(s) : s[j] = BS})

\* C10: split_msvcrt and split_ucrt return a word list on every string; a quote
\* that is never closed opens a region that runs to the end of the string,
\* whitespace included; backslashes that end the string are emitted as they
\* are; and split fails only with the metacharacter error (like_cmd and check)
\* or the ambiguity error (no variant pinned).
C10_SplittingIsTotal ==
    /\ (pc = "done" /\ call.op \in {"split_msvcrt", "split_ucrt"})
           => /\ result.kind = "return"
              /\ \A p \in 1..Len(cmdline) :
                     OnlyQuoteAt(cmdline, p)
                         => LET a == ChunkStart(cmdline, p)
                            IN  result.value =
                                    Splitter(call.op, SubSeq(cmdline, 1, a - 1))
                                    \o << SubSeq(cmdline, a, p - 1)
                                              \o SubSeq(cmdline, p + 1, Len(cmdline)) >>
              /\ LET n == TrailingSlashes(cmdline)
                     last == result.value[Len(result.value)]
                 IN  n > 0
                         => /\ result.value # <<>>
                            /\ Len(last) >= n
                            /\ SubSeq(last, Len(last) - n + 1, Len(last)) = Repeat(BS, n)
                            /\ TotalLen(result.value) =
                                   n + TotalLen(Splitter(call.op,
                                           SubSeq(cmdline, 1, Len(cmdline) - n)))
    /\ (SplitDone /\ result.kind # "return")
           => \/ RaisedUnquoted /\ call.like_cmd /\ call.check
              \/ RaisedAmbiguous /\ call.ucrt = "None"

\* a splitter returned the one word of a string whose quote is never closed and
\* which ends in whitespace and a backslash
C10_Witness ==
    /\ pc = "done" /\ call.op = "split_ucrt"
    /\ cmdline = <<DQ, "x", SP, BS>>
    /\ result = Return(<< <<"x", SP, BS>> >>)

RECURSIVE CaretNormal(_, _, _)
\* The text cmd.exe leaves of s from i, character by character, in shell quote
\* mode quote_mode: outside quotes a caret is dropped and the character after
\* it is emitted as plain text; inside quotes a caret and the character after
\* it are both emitted, and a quote after the caret closes the quotes; a quote
\* alone flips quote_mode.
CaretNormal(s, i, quote_mode) ==
    IF i > Len(s) THEN <<>>
    ELSE IF s[i] = CARET
    THEN LET after == IF i < Len(s) THEN <<s[i + 1]>> ELSE <<>>
         IN  IF quote_mode
             THEN <<CARET>> \o after \o CaretNormal(s, i + 2, after # <<DQ>>)
             ELSE after \o CaretNormal(s, i + 2, quote_mode)
    ELSE IF s[i] = DQ
    THEN <<DQ>> \o CaretNormal(s, i + 1, ~quote_mode)
    ELSE <<s[i]>> \o CaretNormal(s, i + 1, quote_mode)

\* C11: caret normalization: while the shell quote mode is false a caret is
\* dropped and the character after it is emitted literally (two carets give
\* one, caret-quote gives a quote that does not toggle, a last lone caret gives
\* nothing); while it is true the caret and the character after it are both
\* emitted, and a quote after the caret closes the quote mode.  Whenever the
\* caret pass returns, it returns that text, and a shell-aware split splits it.
C11_CaretNormalization ==
    /\ (pc = "done" /\ call.op = "strip_carets_like_cmd" /\ result.kind = "return")
           => result.value = CaretNormal(cmdline, 1, FALSE)
    /\ (SplitDone /\ call.like_cmd /\ call.ucrt # "None" /\ result.kind = "return")
           => result.value =
                  Splitter(IF call.ucrt = "True" THEN "split_ucrt" ELSE "split_msvcrt",
                           CaretNormal(cmdline, 1, FALSE))
    /\ (pc = "done" /\ call.op = "strip_carets_like_cmd")
           => /\ cmdline = <<CARET, CARET>> => result = Return(<<CARET>>)
              /\ cmdline = <<CARET, DQ, CARET, "&">> => result = Return(<<DQ, "&">>)
              /\ cmdline = <<"x", CARET>> => result = Return(<<"x">>)

\* the caret pass kept a caret-quote inside quotes, closed the quotes on it, and
\* dropped the lone caret that ends the string
C11_Witness ==
    /\ pc = "done" /\ call.op = "strip_carets_like_cmd"
    /\ cmdline = <<DQ, CARET, DQ, CARET>>
    /\ result = Return(<<DQ, CARET, DQ>>)

\* C12: the check flag changes only whether the caret pass raises: wherever
\* strip_carets_like_cmd with check on returns, it returns the string that
\* strip_carets_like_cmd with check off returns, and with check off it never
\* raises.
C12_CheckOnlyRaises ==
    /\ (pc = "done" /\ call.op = "strip_carets_like_cmd" /\ call.check
            /\ result.kind = "return")
           => result = strip_carets_like_cmd(cmdline, FALSE)
    /\ (pc = "done" /\ call.op = "strip_carets_like_cmd" /\ ~call.check)
           => /\ result.kind = "return"
              /\ strip_carets_like_cmd(cmdline, TRUE).kind = "return"
                     => result = strip_carets_like_cmd(cmdline, TRUE)

\* the checking caret pass returned a string it had dropped a caret from
C12_Witness ==
    /\ pc = "done" /\ call.op = "strip_carets_like_cmd" /\ call.check
    /\ cmdline = <<CARET, "&", DQ, CARET>>
    /\ result = Return(<<"&", DQ, CARET>>)

\* a character that occurs in no input, to stand for text that is only emitted
Mark == "q"

\* w with every Mark replaced by the string to
Subst(w, to) == Concat([j \in 1..Len(w) |-> IF w[j] = Mark THEN to ELSE <<w[j]>>])

SubstWords(ws, to) == [k \in 1..Len(ws) |-> Subst(ws[k], to)]

\* the starts of the maximal backslash runs of s
SlashRunStarts(s) == {p \in 1..Len(s) : s[p] = BS /\ (p = 1 \/ s[p - 1] # BS)}

\* What the claim says the words of s are, given the run of n backslashes at p:
\* if a quote follows, the words of s with the run replaced by n div 2
\* backslashes that no quote follows (a Mark after them, taken out again), and,
\* when n is odd, with the first quote replaced by plain text that reads as a
\* quote (a Mark, turned into a quote again); if no quote follows, the words
\* of s with the n backslashes replaced by n characters of plain text.
SlashRunReading(op, s, p) ==
    LET e == RunEnd(s, p, {BS}, TRUE)
        n == e - p
        a == SubSeq(s, 1, p - 1)
        b == SubSeq(s, e, Len(s))
    IN  IF b # <<>> /\ b[1] = DQ
        THEN IF n % 2 = 1
             THEN SubstWords(Splitter(op, a \o Repeat(BS, n \div 2) \o <<Mark>> \o Tail(b)),
                             <<DQ>>)
             ELSE SubstWords(Splitter(op, a \o Repeat(BS, n \div 2) \o <<Mark>> \o b),
                             <<>>)
        ELSE SubstWords(Splitter(op, a \o Repeat(Mark, n) \o b), <<BS>>)

\* C13: in both splitters a run of n backslashes that a quote follows gives
\* n div 2 literal backslashes and, when n is odd, makes the first quote a
\* literal quote that does not toggle quote mode; a run of backslashes that no
\* quote follows gives all its n backslashes.
C13_BackslashRuns ==
    (pc = "done" /\ call.op \in {"split_msvcrt", "split_ucrt"})
        => \A p \in SlashRunStarts(cmdline) :
               result.value = SlashRunReading(call.op, cmdline, p)

\* the legacy splitter halved three backslashes before a quote and took the
\* quote as text, after a backslash that stayed as it was
C13_Witness ==
    /\ pc = "done" /\ call.op = "split_msvcrt"
    /\ cmdline = <<"a", BS, BS, BS, DQ, "b", SP, "c", SP, "d">>
    /\ result = Return(<< <<"a", BS, DQ, "b">>, <<"c">>, <<"d">> >>)

\* the outcome of the call of this state on the string s
SameCall(s) ==
    IF call.op = "split_msvcrt" THEN Return(split_msvcrt(s))
    ELSE IF call.op = "split_ucrt" THEN Return(split_ucrt(s))
    ELSE split(s, call.like_cmd, call.check, call.ucrt)

\* two outcomes that return the same words or fail with the same error (the
\* message of an error ends with the string of the call, which is left out)
SameWordsOrError(r1, r2) ==
    r1.kind = r2.kind /\ r1.value = r2.value /\ r1.msg = r2.msg

\* C14: an empty or whitespace-only string gives zero words from split_msvcrt,
\* split_ucrt and split, and whitespace before the first word is part of no
\* word: a string and the string without its leading whitespace split alike.
C14_LeadingWhitespace ==
    (pc = "done" /\ call.op \in {"split_msvcrt", "split_ucrt", "split"})
        => /\ (\A j \in 1..Len(cmdline) : cmdline[j] \in Whitespace)
                  => result = Return(<<>>)
           /\ \A j \in 1..Len(cmdline) :
                  (\A k \in 1..j : cmdline[k] \in Whitespace)
                      => SameWordsOrError(result, SameCall(SubSeq(cmdline, j + 1, Len(cmdline))))

\* the legacy splitter returned the two words of a string that starts with a
\* newline
C14_Witness ==
    /\ pc = "done" /\ call.op = "split_msvcrt"
    /\ cmdline = <<NL, "x", SP, "x">>
    /\ result = Return(<< <<"x">>, <<"x">> >>)

QuoteDone == pc = "done" /\ call.op = "quote"

\* the shell metacharacters: quote, caret and the operators
ShellMeta == {DQ, CARET} \cup ShellOperators

\* C15: quote is the identity on words that need no protection: a non-empty
\* word with no whitespace and no shell metacharacter, with for_cmd on; a
\* non-empty word with no whitespace and no quote, with for_cmd off.  The
\* backslashes such a word ends with are not doubled.
C15_QuoteIdentity ==
    (QuoteDone /\ cmdline # <<>> /\ ~Search(Whitespace, cmdline))
        => /\ (call.for_cmd /\ ~Search(ShellMeta, cmdline)) => result = Return(cmdline)
           /\ (~call.for_cmd /\ ~Search({DQ}, cmdline)) => result = Return(cmdline)

\* argv-only quote returned a word with a caret, an ampersand and two last
\* backslashes as it was
C15_Witness ==
    /\ QuoteDone /\ ~call.for_cmd
    /\ cmdline = <<CARET, "&", BS, BS>>
    /\ result = Return(cmdline)

\* the pure caret encoding: a caret before every shell metacharacter
CaretBeforeMeta(s) ==
    Concat([j \in 1..Len(s) |-> IF s[j] \in ShellMeta THEN <<CARET, s[j]>> ELSE <<s[j]>>])

\* the shorter of the run-based encoding and the pure caret encoding of s, the
\* run-based one when they are equally long
ShorterEncoding(s) ==
    IF Len(CaretBeforeMeta(s)) < Len(_quote_for_cmd(s))
    THEN CaretBeforeMeta(s) ELSE _quote_for_cmd(s)

\* C16 as stated: shell-aware quote of a word with no whitespace and no quote
\* returns the shorter of the run-based encoding and the pure caret encoding,
\* the run-based one on a tie; for a word with whitespace or a quote it never
\* returns the pure caret encoding.
C16_ShorterOfTwo ==
    (QuoteDone /\ call.for_cmd)
        => IF ~Search(Whitespace \cup {DQ}, cmdline)
           THEN result = Return(ShorterEncoding(cmdline))
           ELSE result.value # CaretBeforeMeta(cmdline)

\* C16 as amended: the same for every non-empty word; for the empty word, whose
\* two encodings are both empty, shell-aware quote returns two quotes.
C16_ShorterOfTwoNonEmpty ==
    (QuoteDone /\ call.for_cmd)
        => IF cmdline = <<>> THEN result = Return(<<DQ, DQ>>)
           ELSE IF ~Search(Whitespace \cup {DQ}, cmdline)
           THEN result = Return(ShorterEncoding(cmdline))
           ELSE result.value # CaretBeforeMeta(cmdline)

\* shell-aware quote returned the run-based encoding of a word whose two
\* encodings are equally long
C16_Witness ==
    /\ QuoteDone /\ call.for_cmd
    /\ cmdline = <<"&", "&">>
    /\ Len(CaretBeforeMeta(cmdline)) = Len(_quote_for_cmd(cmdline))
    /\ result = Return(<<DQ, "&", "&", DQ>>)

RECURSIVE NaiveQuotes(_, _, _, _)
\* The recurrence of the legacy runtime over the n quotes left of a run, one
\* quote at a time: the first quote after an odd backslash run is literal and
\* leaves quote_mode alone; every other quote toggles quote_mode, and when it
\* is met in quote mode with a quote right after it, that second quote is
\* emitted as a literal quote and taken with it.
NaiveQuotes(n, escaped_first, quote_mode, emitted) ==
    IF n = 0 THEN [emitted |-> emitted, quote_mode |-> quote_mode]
    ELSE IF escaped_first
    THEN NaiveQuotes(n - 1, FALSE, quote_mode, emitted + 1)
    ELSE IF quote_mode /\ n >= 2
    THEN NaiveQuotes(n - 2, FALSE, ~quote_mode, emitted + 1)
    ELSE NaiveQuotes(n - 1, FALSE, ~quote_mode, emitted)

\* s read as a string of test_multi_quotes: its incoming quote mode (the open
\* quote and aaa), its backslashes m and its quotes n; ok says whether it is one
AsQuoteRun(s) ==
    LET qm == Len(s) >= 4 /\ SubSeq(s, 1, 4) = <<DQ, "a", "a", "a">>
        pre == IF qm THEN 4 ELSE 0
        b == RunEnd(s, pre + 1, {BS}, TRUE)
        q == RunEnd(s, b, {DQ}, TRUE)
    IN  [qm |-> qm, m |-> b - pre - 1, n |-> q - b,
         ok |-> s = QuoteRun(qm, b - pre - 1, q - b)]

\* C17: for every run of up to 12 backslashes and 1 to 12 quotes, met in either
\* quote mode, the closed form of the legacy splitter (magic_sum) emits as many
\* quotes and leaves the same quote mode as the recurrence that takes one quote
\* at a time: in the iterator on the run alone, and in the words split_msvcrt
\* returns for the run between aaa (quoted or absent) and a space and x.
C17_MagicIsRecurrence ==
    LET run == AsQuoteRun(cmdline)
        naive == NaiveQuotes(run.n, run.m % 2 = 1, run.qm, 0)
        emitted == Repeat(BS, run.m \div 2) \o Repeat(DQ, naive.emitted)
        r == _iter_arg_msvcrt(ArgMatches(Repeat(BS, run.m) \o Repeat(DQ, run.n)),
                              1, run.qm, <<>>)
        word == (IF run.qm THEN <<"a", "a", "a">> ELSE <<>>) \o emitted
    IN  (pc = "done" /\ call.op = "split_msvcrt" /\ run.ok /\ run.n >= 1)
            => /\ r.arg = emitted
               /\ r.quote_mode = naive.quote_mode
               /\ result = Return(IF naive.quote_mode THEN << word \o <<SP, "x">> >>
                                                      ELSE << word, <<"x">> >>)

\* split_msvcrt split a run of 11 backslashes and 12 quotes met in quote mode:
\* five backslashes, five quotes, and the quote mode left
C17_Witness ==
    /\ pc = "done" /\ call.op = "split_msvcrt"
    /\ cmdline = QuoteRun(TRUE, 11, 12)
    /\ result = Return(<< <<"a", "a", "a">> \o Repeat(BS, 5) \o Repeat(DQ, 5), <<"x">> >>)

\* The quotes the modern rule emits and the quote mode it leaves, for a run of
\* m backslashes and n quotes met in quote mode qm, in closed form: an odd m
\* takes one quote as a literal; of the k quotes left, the first opens the
\* region if it is closed; then every pair gives one literal quote and a last
\* single quote closes the region.
ModernRun(qm, m, n) ==
    LET lit == IF m % 2 = 1 /\ n >= 1 THEN 1 ELSE 0
        k == n - lit
        inside == IF qm THEN k ELSE k - 1
    IN  IF k = 0 THEN [emitted |-> lit, quote_mode |-> qm]
        ELSE [emitted |-> lit + inside \div 2, quote_mode |-> inside % 2 = 0]

\* C18: the quote-run rule of the modern splitter: after the backslash run (and
\* the one escaped quote of an odd run), while quote mode is true and at least
\* two quotes remain, one literal quote is emitted, two are consumed and quote
\* mode stays true; otherwise one quote is consumed and quote mode flips.  So a
\* doubled quote inside quotes is a literal quote that leaves the region open:
\* quote, aaa, two quotes, space, x is the one word aaa, quote, space, x.
C18_ModernQuoteRuns ==
    LET run == AsQuoteRun(cmdline)
        modern == ModernRun(run.qm, run.m, run.n)
        loop == UcrtQuotes(run.n, run.qm, <<>>)
        word == (IF run.qm THEN <<"a", "a", "a">> ELSE <<>>)
                    \o Repeat(BS, run.m \div 2) \o Repeat(DQ, modern.emitted)
    IN  (pc = "done" /\ call.op = "split_ucrt")
            => /\ (run.ok /\ run.n >= 1)
                      => result = Return(IF modern.quote_mode
                                         THEN << word \o <<SP, "x">> >>
                                         ELSE << word, <<"x">> >>)
               /\ (run.ok /\ run.n >= 2 /\ run.qm)
                      => /\ loop.out = Repeat(DQ, run.n \div 2)
                         /\ loop.quote_mode = (run.n % 2 = 0)
               /\ (run.ok /\ ~run.qm /\ run.n = 1) => loop = [out |-> <<>>, quote_mode |-> TRUE]
               /\ cmdline = QuotedAaa
                      => result = Return(<< <<"a", "a", "a", DQ, SP, "x">> >>)

\* split_ucrt returned the one word of quote, aaa, two quotes, space, x
C18_Witness ==
    /\ pc = "done" /\ call.op = "split_ucrt"
    /\ cmdline = QuotedAaa
    /\ result = Return(<< <<"a", "a", "a", DQ, SP, "x">> >>)

\* The reading of escape_quotes, character by character: a quote gets one
\* backslash before it, a backslash of a run that a quote follows is doubled,
\* and every other character stays as it is.
EscapedReading(s) ==
    Concat([j \in 1..Len(s) |->
               IF s[j] = DQ THEN <<BS, DQ>>
               ELSE IF s[j] = BS
               THEN LET e == RunEnd(s, j, {BS}, TRUE)
                    IN  IF e <= Len(s) /\ s[e] = DQ THEN <<BS, BS>> ELSE <<BS>>
               ELSE <<s[j]>>])

\* C19: when argv-only quote wraps a word (the word has whitespace), the result
\* is a quote, escape_quotes of the word with the backslash run it ends with
\* (if any) doubled, and a quote; escape_quotes doubles every backslash run
\* that quotes follow and puts one backslash before each quote, and leaves all
\* other text as it is, backslash runs that no quote follows and that do not
\* end the word included.
C19_WrapDoublesTrailingRun ==
    /\ (QuoteDone /\ ~call.for_cmd /\ Search(Whitespace, cmdline))
           => LET e == EscapedReading(cmdline)
              IN  result = Return(<<DQ>> \o e \o Repeat(BS, TrailingSlashes(e)) \o <<DQ>>)
    /\ QuoteDone => _escape_quotes(cmdline) = EscapedReading(cmdline)

\* the source text of a match of the token scanner
MatchText(m) == m.space \o m.slashes \o m.quotes \o m.text

\* the position in the scanned string where the k-th match starts
MatchStart(ms, k) == IF k = 1 THEN 1 ELSE ms[k - 1].end

\* C20: the token scanner is lossless: the runs it produces for s (whitespace,
\* backslashes and quotes, plain text), put together in order, are s without
\* its leading whitespace; every character is in one run, of one kind; and a
\* backslash run that quotes follow is scanned as one run with its quotes,
\* never as plain text and then quotes.
C20_ScannerLossless ==
    LET t == lstrip(cmdline)
        ms == ArgMatches(cmdline)
    IN  (pc = "done" /\ call.op \in {"split_msvcrt", "split_ucrt"})
            => /\ Concat([k \in 1..Len(ms) |-> MatchText(ms[k])]) = t
               /\ \A k \in 1..Len(ms) :
                      /\ MatchText(ms[k]) # <<>>
                      /\ MatchText(ms[k]) = SubSeq(t, MatchStart(ms, k), ms[k].end - 1)
                      /\ Bool(ms[k].space # <<>>) + Bool(ms[k].quotes # <<>>)
                             + Bool(ms[k].text # <<>>) = 1
                      /\ ms[k].slashes # <<>> => ms[k].quotes # <<>>
                      /\ \A j \in 1..Len(ms[k].space) : ms[k].space[j] \in Whitespace
                      /\ \A j \in 1..Len(ms[k].slashes) : ms[k].slashes[j] = BS
                      /\ \A j \in 1..Len(ms[k].quotes) : ms[k].quotes[j] = DQ
               /\ ms # <<>> => ms[Len(ms)].end = Len(t) + 1
               /\ \A j \in 1..Len(t) :
                      (t[j] \in {BS, DQ} /\ LET e == RunEnd(t, j, {BS}, TRUE)
                                            IN  e <= Len(t) /\ t[e] = DQ)
                          => \E k \in 1..Len(ms) :
                                 /\ MatchStart(ms, k) <= j /\ j < ms[k].end
                                 /\ ms[k].quotes # <<>>
                                 /\ MatchStart(ms, k) = 1 \/ t[MatchStart(ms, k) - 1] # BS

\* a splitter scanned space, x, backslash, quote as the text x and the run of
\* one backslash and one quote
C20_Witness ==
    /\ pc = "done" /\ call.op = "split_ucrt"
    /\ cmdline = <<SP, "x", BS, DQ>>
    /\ ArgMatches(cmdline) =
           << [NoGroups EXCEPT !.text = <<"x">>, !.end = 2],
              [NoGroups EXCEPT !.slashes = <<BS>>, !.quotes = <<DQ>>, !.end = 4] >>

\* the argument iterator of a splitter
IterArg(op, ms, k) ==
    IF op = "split_msvcrt" THEN _iter_arg_msvcrt(ms, k, FALSE, <<>>)
    ELSE _iter_arg_ucrt(ms, k, FALSE, <<>>)

RECURSIVE LastQuoteMode(_, _, _)
\* the quote_mode a splitter holds when the matches ms run out, scanning
\* arguments from the match k: that of the iterator of the last argument
LastQuoteMode(op, ms, k) ==
    IF k > Len(ms) THEN FALSE
    ELSE LET r == IterArg(op, ms, k)
         IN  IF r.next > Len(ms) THEN r.quote_mode ELSE LastQuoteMode(op, ms, r.next)

\* neither splitter is left in quote mode by the string s
ClosedForSplitters(s) ==
    \A op \in {"split_msvcrt", "split_ucrt"} : ~LastQuoteMode(op, ArgMatches(s), 1)

\* neither the caret pass nor, on what it returns, a splitter is left in quote
\* mode by the string s
ClosedForCmd(s) ==
    /\ ~StripScan(s, FALSE).quote_mode
    /\ ClosedForSplitters(StripScan(s, FALSE).out)

\* C21: every encoding quote produces leaves no quoted region open: the caret
\* pass over quote(w, for_cmd=True) ends with its quote mode false, and either
\* splitter ends with its quote mode false on the string the caret pass
\* returns, and on quote(w, for_cmd=False); so does the command line join
\* makes of such encodings.
C21_EncodingsAreClosed ==
    /\ QuoteDone
           => IF call.for_cmd THEN ClosedForCmd(result.value)
              ELSE ClosedForSplitters(result.value)
    /\ (pc = "cmdline" /\ call.op = "join")
           => IF call.for_cmd THEN ClosedForCmd(cmdline)
              ELSE ClosedForSplitters(cmdline)

\* shell-aware quote wrapped a word with a space that ends in a backslash, and
\* doubled the backslash before the closing quote
C21_Witness ==
    /\ QuoteDone /\ call.for_cmd
    /\ cmdline = <<"x", SP, BS>>
    /\ result = Return(<<DQ, "x", SP, BS, BS, DQ>>)

\* the outcome of the caret pass followed by a split that is not shell-aware
StripThenSplit(s, check, ucrt) ==
    LET stripped == strip_carets_like_cmd(s, check)
    IN  IF stripped.kind # "return" THEN stripped
        ELSE split(stripped.value, FALSE, check, ucrt)

\* C22: the metacharacter guard of split is redundant: on a string with none
\* of the shell metacharacters the caret pass returns the string as it is and
\* does not raise, with check on or off; so a shell-aware split has the outcome
\* of the caret pass followed by a split that is not shell-aware, for every
\* string, check and variant.
C22_GuardIsRedundant ==
    /\ (pc = "done" /\ call.op = "strip_carets_like_cmd" /\ ~Search(ShellMeta, cmdline))
           => result = Return(cmdline)
    /\ (SplitDone /\ call.like_cmd)
           => result = StripThenSplit(cmdline, call.check, call.ucrt)

\* a strict shell-aware split, whose guard skipped the caret pass, returned the
\* words of a string with no metacharacter
C22_Witness ==
    /\ SplitDone /\ call.like_cmd /\ call.check
    /\ ~Search(cmd_meta, cmdline)
    /\ cmdline = <<"x", SP, "x", BS>>
    /\ result = Return(<< <<"x">>, <<"x", BS>> >>)

\* no two quote characters of s are next to each other
NoAdjacentQuotes(s) == \A j \in 1..(Len(s) - 1) : ~(s[j] = DQ /\ s[j + 1] = DQ)

\* what a splitter has emitted and the quote mode it holds after the first k
\* matches of ms: the arguments so far, the last of them the one in progress
AfterMatches(op, ms, k) ==
    LET seen == SubSeq(ms, 1, k)
    IN  [emitted |-> IF op = "split_msvcrt" THEN ArgsMsvcrt(seen, 1) ELSE ArgsUcrt(seen, 1),
         quote_mode |-> LastQuoteMode(op, seen, 1)]

\* C23: two quotes next to each other are needed for the runtimes to disagree:
\* on a string in which no two quotes are adjacent split_msvcrt and split_ucrt
\* return the same words, and after every run of backslashes and a quote both
\* have emitted the same text and hold the same quote mode.
C23_SingleQuotesAgree ==
    LET ms == ArgMatches(cmdline)
    IN  (pc = "done" /\ call.op \in {"split_msvcrt", "split_ucrt"}
             /\ NoAdjacentQuotes(cmdline))
            => /\ result = Return(split_msvcrt(cmdline))
               /\ result = Return(split_ucrt(cmdline))
               /\ \A k \in 1..Len(ms) :
                      ms[k].quotes # <<>>
                          => AfterMatches("split_msvcrt", ms, k)
                                 = AfterMatches("split_ucrt", ms, k)

\* the modern splitter returned the word of a string with an opening quote and
\* an escaped quote, which the legacy splitter returns too
C23_Witness ==
    /\ pc = "done" /\ call.op = "split_ucrt"
    /\ cmdline = <<DQ, BS, DQ, "x">>
    /\ result = Return(<< <<DQ, "x">> >>)
    /\ result = Return(split_msvcrt(cmdline))

RECURSIVE FieldsFrom(_, _)
\* the maximal substrings without whitespace of s from i, in order
FieldsFrom(s, i) ==
    LET a == RunEnd(s, i, Whitespace, TRUE)
        e == RunEnd(s, a, Whitespace, FALSE)
    IN  IF a > Len(s) THEN <<>>
        ELSE <<SubSeq(s, a, e - 1)>> \o FieldsFrom(s, e)

RECURSIVE Seeds(_, _, _)
\* the matches that seed the scan of an argument, from the match k
Seeds(op, ms, k) ==
    IF k > Len(ms) THEN {}
    ELSE {k} \cup Seeds(op, ms, IterArg(op, ms, k).next)

\* C24: on a string with no quote the splitters split at whitespace and nothing
\* more: split_msvcrt and split_ucrt both return the maximal substrings without
\* whitespace, in order, backslashes kept as they are; the run that seeds the
\* scan of an argument is never a whitespace run, so a result has an empty word
\* only if the string has a quote.
C24_QuoteFreeIsWhitespaceSplitting ==
    LET ms == ArgMatches(cmdline)
    IN  (pc = "done" /\ call.op \in {"split_msvcrt", "split_ucrt"})
            => /\ ~Search({DQ}, cmdline)
                      => /\ result = Return(FieldsFrom(cmdline, 1))
                         /\ split_msvcrt(cmdline) = FieldsFrom(cmdline, 1)
                         /\ split_ucrt(cmdline) = FieldsFrom(cmdline, 1)
               /\ \A k \in Seeds(call.op, ms, 1) : ms[k].space = <<>>
               /\ (\E k \in 1..Len(result.value) : result.value[k] = <<>>)
                      => Search({DQ}, cmdline)

\* the legacy splitter returned the two fields of a string with a backslash
\* and two whitespace characters in a row
C24_Witness ==
    /\ pc = "done" /\ call.op = "split_msvcrt"
    /\ cmdline = <<BS, SP, NL, "x">>
    /\ result = Return(<< <<BS>>, <<"x">> >>)

====
